---- MODULE Spec2Model ----
(***************************************************************************)
(* summerlog: the run pipeline of ai_log_summary.main().                   *)
(*                                                                         *)
(* One process runs main() to completion, exits, and is invoked again by   *)
(* the scheduler.  The only persisted state is TIMESTAMP_FILE.  The wall   *)
(* clock is an integer that never goes backwards; the text of instant t is  *)
(* isoformat(t) and the empty string is <<>>.                              *)
(***************************************************************************)
EXTENDS Integers, Sequences, FiniteSets, TLC

\* ---- bounds of the model ------------------------------------------------
MaxTime == 2          \* the clock runs 0..MaxTime
MaxRuns == 2          \* number of invocations of main()
MaxLen == 3           \* longest log text given to build_prompt alone
MaxCap == 3           \* largest MAX_LOG_CHARS given to build_prompt alone

\* ---- program constants --------------------------------------------------
SINCE_HOURS == 24     \* default of the SINCE_HOURS setting
MAX_LOG_CHARS == 2    \* the MAX_LOG_CHARS setting (env-configurable), scaled

\* ---- values -------------------------------------------------------------
None == <<>>
Some(x) == <<x>>

ContainerLists == {<<>>, <<"c1">>, <<"c1", "c2">>}
LogOutputs == {<<>>, <<"a", "b", "c">>}      \* stdout+stderr of `docker logs`
ErrorOutputs == {<<>>, <<"x">>}              \* e.output of a CalledProcessError
Summaries == {<<"s">>}                       \* message.content.strip()
ConfiguredLists == {<<>>, <<"c1">>}          \* values of the CONTAINERS setting

\* TIMESTAMP_FILE: absent, or present with a text
NotFound == [exists |-> FALSE, text |-> <<>>]
FileWith(t) == [exists |-> TRUE, text |-> t]

\* a character of a timestamp text: the ISO-8601 rendering of instant t, or a
\* blank
IsoChar(t) == [c |-> "iso", t |-> t]
Blank == [c |-> " ", t |-> 0]

\* datetime.isoformat(): one text per instant, without blanks
isoformat(t) == <<IsoChar(t)>>

\* str.strip(): drop leading and trailing whitespace
RECURSIVE lstrip(_)
lstrip(s) == IF s # <<>> /\ Head(s).c = " " THEN lstrip(Tail(s)) ELSE s
RECURSIVE rstrip(_)
rstrip(s) == IF s # <<>> /\ s[Len(s)].c = " " THEN rstrip(SubSeq(s, 1, Len(s) - 1)) ELSE s
strip(s) == rstrip(lstrip(s))

\* logs[-n:] as Python slices it
TailSlice(s, n) ==
    LET start == IF -n < 0 THEN (IF Len(s) - n > 0 THEN Len(s) - n ELSE 0)
                 ELSE (IF -n < Len(s) THEN -n ELSE Len(s))
    IN SubSeq(s, start + 1, Len(s))

\* the text get_container_logs returns for a CalledProcessError
ErrorMarker(output) == <<"Error collecting logs: ">> \o output

VARIABLES
    now,                \* wall clock
    watermark_file,     \* TIMESTAMP_FILE
    pc,                 \* position of the process in main()
    runs,               \* invocations so far
    args_dry_run,       \* args.dry_run
    CONTAINERS,         \* the CONTAINERS setting
    max_log_chars,      \* the MAX_LOG_CHARS setting as this process read it
    since_iso, since_str, current_timestamp,
    docker_ps,          \* how `docker ps` ended in this run
    containers, log_data, prompt,
    summary, ai_error, email_sent,
    outcome, exit_code,
    \* history of the run, kept for the properties
    wm_before,          \* TIMESTAMP_FILE when the run started
    fetch_failed,       \* sources whose fetch raised
    fetch_started_at,   \* clock when the fetch loop began
    summarizer_calls, delivery_calls,
    committed_fetch_start, \* fetch_started_at of the run that wrote the file
    prev,               \* the previous run: a stage failed, since_iso, watermark present
    reader              \* what another instance's watermark load observed

locals == <<args_dry_run, CONTAINERS, max_log_chars, since_iso, since_str, current_timestamp,
            docker_ps, containers, log_data, prompt, summary, ai_error, email_sent>>
history == <<wm_before, fetch_failed, fetch_started_at, summarizer_calls,
             delivery_calls, committed_fetch_start, prev>>
vars == <<now, watermark_file, pc, runs, outcome, exit_code, locals, history, reader>>

EmptyDict == [n \in {} |-> <<>>]

\* build_prompt: one section per source, in the order of `order` (the
\* insertion order of the dict), each cut by logs[-MAX_LOG_CHARS:]
build_prompt(order, data, since) ==
    [since |-> since,
     sections |-> [i \in 1..Len(order) |->
                     [name |-> order[i], logs |-> TailSlice(data[order[i]], max_log_chars)]]]

Init ==
    /\ now = 0
    /\ \E present \in BOOLEAN :
         /\ watermark_file = IF present THEN FileWith(isoformat(0)) ELSE NotFound
         /\ committed_fetch_start = IF present THEN Some(0) ELSE None
    /\ pc = "idle"
    /\ runs = 0
    /\ args_dry_run = FALSE
    /\ CONTAINERS = <<>>
    /\ max_log_chars = MAX_LOG_CHARS
    /\ since_iso = <<>>
    /\ since_str = [kind |-> "unset", value |-> <<>>]
    /\ current_timestamp = <<>>
    /\ docker_ps = "not_run"
    /\ containers = <<>>
    /\ log_data = EmptyDict
    /\ prompt = None
    /\ summary = None
    /\ ai_error = None
    /\ email_sent = None
    /\ outcome = "None"
    /\ exit_code = 0
    /\ wm_before = watermark_file
    /\ fetch_failed = {}
    /\ fetch_started_at = None
    /\ summarizer_calls = 0
    /\ delivery_calls = 0
    /\ prev = [failed |-> FALSE, since_iso |-> <<>>, wm_exists |-> FALSE]
    /\ reader = None

\* ---- the process exits --------------------------------------------------
Exit(o, code) ==
    /\ pc' = "exited"
    /\ outcome' = o
    /\ exit_code' = code

Running(next) ==
    /\ pc' = next
    /\ UNCHANGED <<outcome, exit_code>>

\* the summarizer reported an error, or the delivery adapter reported failure
StageFailed == ai_error # None \/ email_sent = Some(FALSE)

\* ---- main(): invocation, lines 519-539 ----------------------------------
ResetRun(dry, conf) ==
    /\ runs' = runs + 1
    /\ args_dry_run' = dry
    /\ CONTAINERS' = conf
    /\ max_log_chars' = MAX_LOG_CHARS
    /\ since_iso' = <<>>
    /\ since_str' = [kind |-> "unset", value |-> <<>>]
    /\ current_timestamp' = <<>>
    /\ docker_ps' = "not_run"
    /\ containers' = <<>>
    /\ log_data' = EmptyDict
    /\ prompt' = None
    /\ summary' = None
    /\ ai_error' = None
    /\ email_sent' = None
    /\ wm_before' = watermark_file
    /\ fetch_failed' = {}
    /\ fetch_started_at' = None
    /\ summarizer_calls' = 0
    /\ delivery_calls' = 0
    /\ prev' = [failed |-> StageFailed, since_iso |-> since_iso,
                wm_exists |-> wm_before.exists]
    /\ reader' = None
    /\ UNCHANGED <<now, watermark_file, committed_fetch_start>>

Main_Start ==
    /\ pc \in {"idle", "exited"}
    /\ runs < MaxRuns
    /\ \E dry \in BOOLEAN, conf \in ConfiguredLists : ResetRun(dry, conf)
    /\ pc' = "load_watermark"
    /\ outcome' = "Running"
    /\ exit_code' = 0

\* line 538-539: a required setting is missing
Main_MissingEnv ==
    /\ pc \in {"idle", "exited"}
    /\ runs < MaxRuns
    /\ \E dry \in BOOLEAN, conf \in ConfiguredLists : ResetRun(dry, conf)
    /\ Exit("MissingEnv", 1)

\* ---- main(): the collection window, lines 541-550 -----------------------
Main_LoadWatermark_AlwaysLookback ==
    /\ pc = "load_watermark"
    /\ since_iso' = isoformat(now - SINCE_HOURS)
    /\ since_str' = [kind |-> "the last hours", value |-> isoformat(SINCE_HOURS)]
    /\ Running("capture_timestamp")
    /\ UNCHANGED <<now, watermark_file, runs, args_dry_run, CONTAINERS, max_log_chars,
                   current_timestamp,
                   docker_ps, containers, log_data, prompt, summary, ai_error, email_sent,
                   history, reader>>

Main_LoadWatermark ==
    /\ pc = "load_watermark"
    /\ IF watermark_file.exists
       THEN /\ since_iso' = strip(watermark_file.text)
            /\ since_str' = [kind |-> "the last run at", value |-> strip(watermark_file.text)]
       ELSE /\ since_iso' = isoformat(now - SINCE_HOURS)
            /\ since_str' = [kind |-> "the last hours", value |-> isoformat(SINCE_HOURS)]
    /\ Running("capture_timestamp")
    /\ UNCHANGED <<now, watermark_file, runs, args_dry_run, CONTAINERS, max_log_chars,
                   current_timestamp,
                   docker_ps, containers, log_data, prompt, summary, ai_error, email_sent,
                   history, reader>>

Main_CaptureTimestamp ==
    /\ pc = "capture_timestamp"
    /\ current_timestamp' = isoformat(now)
    /\ Running("list_containers")
    /\ UNCHANGED <<now, watermark_file, runs, args_dry_run, CONTAINERS, max_log_chars,
                   since_iso, since_str,
                   docker_ps, containers, log_data, prompt, summary, ai_error, email_sent,
                   history, reader>>

\* ---- get_docker_containers and the empty-list return, lines 64-77, 553-556
ListFrame == UNCHANGED <<now, watermark_file, runs, args_dry_run, CONTAINERS, max_log_chars,
                   since_iso,
                         since_str, current_timestamp, log_data, prompt, summary, ai_error,
                         email_sent, history, reader>>

\* the CONTAINERS setting is returned as it is
Main_ListConfigured ==
    /\ pc = "list_containers"
    /\ CONTAINERS # <<>>
    /\ containers' = CONTAINERS
    /\ docker_ps' = "not_run"
    /\ Running("fetch")
    /\ ListFrame

\* `docker ps` succeeds, without the return for an empty list
Main_DockerPs_NoEmptyCheck ==
    /\ pc = "list_containers"
    /\ CONTAINERS = <<>>
    /\ \E names \in ContainerLists :
         /\ containers' = names
         /\ docker_ps' = "ok"
         /\ Running(IF names = <<>> THEN "logs_collected" ELSE "fetch")
    /\ ListFrame

\* `docker ps` succeeds
Main_DockerPs ==
    /\ pc = "list_containers"
    /\ CONTAINERS = <<>>
    /\ \E names \in ContainerLists :
         /\ containers' = names
         /\ docker_ps' = "ok"
         /\ IF names = <<>> THEN Exit("NoContainers", 0) ELSE Running("fetch")
    /\ ListFrame

Main_DockerPsFailed_ReturnsEmpty ==
    /\ pc = "list_containers"
    /\ CONTAINERS = <<>>
    /\ \E err \in {"CalledProcessError", "FileNotFoundError"} : docker_ps' = err
    /\ containers' = <<>>
    /\ Exit("NoContainers", 0)
    /\ ListFrame

\* `docker ps` fails: SystemExit with a message, status 1
Main_DockerPsFailed ==
    /\ pc = "list_containers"
    /\ CONTAINERS = <<>>
    /\ \E err \in {"CalledProcessError", "FileNotFoundError"} : docker_ps' = err
    /\ containers' = <<>>
    /\ Exit("SourceEnumerationFailed", 1)
    /\ ListFrame

\* ---- the fetch loop and get_container_logs, lines 79-88, 558-560 --------
NextSource == containers[Cardinality(DOMAIN log_data) + 1]

Put(data, name, text) ==
    [n \in DOMAIN data \cup {name} |-> IF n = name THEN text ELSE data[n]]

FetchFrame == UNCHANGED <<now, watermark_file, runs, args_dry_run, CONTAINERS, max_log_chars,
                   since_iso,
                          since_str, current_timestamp, docker_ps, containers, prompt,
                          summary, ai_error, email_sent, wm_before, summarizer_calls,
                          delivery_calls, committed_fetch_start, prev, reader>>

StartFetching ==
    fetch_started_at' = IF fetch_started_at = None THEN Some(now) ELSE fetch_started_at

Collected(data) == Cardinality(DOMAIN data) = Len(containers)

\* `docker logs` exits 0: its output is the source's text
Main_FetchLogs ==
    /\ pc = "fetch"
    /\ \E out \in LogOutputs : log_data' = Put(log_data, NextSource, out)
    /\ StartFetching
    /\ Running(IF Collected(log_data') THEN "logs_collected" ELSE "fetch")
    /\ UNCHANGED fetch_failed
    /\ FetchFrame

\* `docker logs` exits non-zero: CalledProcessError becomes the marker text
Main_FetchLogsError ==
    /\ pc = "fetch"
    /\ \E out \in ErrorOutputs : log_data' = Put(log_data, NextSource, ErrorMarker(out))
    /\ fetch_failed' = fetch_failed \cup {NextSource}
    /\ StartFetching
    /\ Running(IF Collected(log_data') THEN "logs_collected" ELSE "fetch")
    /\ FetchFrame

\* any other exception of the fetch (docker missing, undecodable bytes) is
\* not caught: it leaves main() with a traceback, status 1
Main_FetchLogsRaises ==
    /\ pc = "fetch"
    /\ fetch_failed' = fetch_failed \cup {NextSource}
    /\ StartFetching
    /\ Exit("FetchCrashed", 1)
    /\ UNCHANGED log_data
    /\ FetchFrame

\* ---- writing TIMESTAMP_FILE: open(..., 'w') truncates, the text reaches
\* ---- the file when the with-block closes it ----------------------------
OpenTimestampFile == watermark_file' = FileWith(<<>>)

WriteTimestamp_CompletionTime ==
    /\ watermark_file' = FileWith(isoformat(now))
    /\ committed_fetch_start' = fetch_started_at

WriteTimestamp ==
    /\ watermark_file' = FileWith(current_timestamp)
    /\ committed_fetch_start' = fetch_started_at

\* ---- no new logs, lines 562-568 -----------------------------------------
AllLogsEmpty == \A n \in DOMAIN log_data : log_data[n] = <<>>

Main_NoNewLogsOpen_SkipsCommit ==
    /\ pc = "logs_collected"
    /\ AllLogsEmpty
    /\ Exit("NoNewLogs", 0)
    /\ UNCHANGED <<now, watermark_file, runs, locals, history, reader>>

Main_NoNewLogsOpen ==
    /\ pc = "logs_collected"
    /\ AllLogsEmpty
    /\ OpenTimestampFile
    /\ Running("nonew_write")
    /\ UNCHANGED <<now, runs, locals, history, reader>>

Main_NoNewLogsWrite ==
    /\ pc = "nonew_write"
    /\ WriteTimestamp
    /\ Exit("NoNewLogs", 0)
    /\ UNCHANGED <<now, runs, locals, wm_before, fetch_failed, fetch_started_at,
                   summarizer_calls, delivery_calls, prev, reader>>

\* ---- build_prompt and get_ai_summary, lines 570-575 ---------------------
SummarizeFrame == UNCHANGED <<now, watermark_file, runs, args_dry_run, CONTAINERS, max_log_chars,
                   since_iso,
                              since_str, current_timestamp, docker_ps, containers, log_data,
                              email_sent, wm_before, fetch_failed, fetch_started_at,
                              delivery_calls, committed_fetch_start, prev, reader>>

Main_Summarized ==
    /\ pc = "logs_collected"
    /\ ~AllLogsEmpty
    /\ prompt' = Some(build_prompt(containers, log_data, since_str))
    /\ summarizer_calls' = summarizer_calls + 1
    /\ \E s \in Summaries : summary' = Some(s)
    /\ ai_error' = None
    /\ Running("summarized")
    /\ SummarizeFrame

Main_SummarizerFailed_Continues ==
    /\ pc = "logs_collected"
    /\ ~AllLogsEmpty
    /\ prompt' = Some(build_prompt(containers, log_data, since_str))
    /\ summarizer_calls' = summarizer_calls + 1
    /\ summary' = None
    /\ ai_error' = Some("Error calling OpenAI API")
    /\ Running("summarized")
    /\ SummarizeFrame

Main_SummarizerFailed ==
    /\ pc = "logs_collected"
    /\ ~AllLogsEmpty
    /\ prompt' = Some(build_prompt(containers, log_data, since_str))
    /\ summarizer_calls' = summarizer_calls + 1
    /\ summary' = None
    /\ ai_error' = Some("Error calling OpenAI API")
    /\ Exit("SummarizerFailed", 1)
    /\ SummarizeFrame

\* ---- dry run, lines 577-580 ---------------------------------------------
Main_DryRun ==
    /\ pc = "summarized"
    /\ args_dry_run
    /\ Exit("DryRunCompleted", 0)
    /\ UNCHANGED <<now, watermark_file, runs, locals, history, reader>>

\* ---- send_email, lines 142-188, 582-585 ---------------------------------
DeliverFrame == UNCHANGED <<now, watermark_file, runs, args_dry_run, CONTAINERS, max_log_chars,
                   since_iso,
                            since_str, current_timestamp, docker_ps, containers, log_data,
                            prompt, summary, ai_error, wm_before, fetch_failed,
                            fetch_started_at, summarizer_calls, committed_fetch_start, prev,
                            reader>>

Main_EmailSent ==
    /\ pc = "summarized"
    /\ ~args_dry_run
    /\ delivery_calls' = delivery_calls + 1
    /\ email_sent' = Some(TRUE)
    /\ Running("final_open")
    /\ DeliverFrame

Main_DeliveryFailed_Continues ==
    /\ pc = "summarized"
    /\ ~args_dry_run
    /\ delivery_calls' = delivery_calls + 1
    /\ email_sent' = Some(FALSE)
    /\ Running("final_open")
    /\ DeliverFrame

Main_DeliveryFailed ==
    /\ pc = "summarized"
    /\ ~args_dry_run
    /\ delivery_calls' = delivery_calls + 1
    /\ email_sent' = Some(FALSE)
    /\ Exit("DeliveryFailed", 1)
    /\ DeliverFrame

\* ---- the commit after delivery, lines 587-590 ---------------------------
Main_FinalOpen ==
    /\ pc = "final_open"
    /\ OpenTimestampFile
    /\ Running("final_write")
    /\ UNCHANGED <<now, runs, locals, history, reader>>

Main_FinalWrite ==
    /\ pc = "final_write"
    /\ WriteTimestamp
    /\ Exit("Delivered", 0)
    /\ UNCHANGED <<now, runs, locals, wm_before, fetch_failed, fetch_started_at,
                   summarizer_calls, delivery_calls, prev, reader>>

\* ---- the environment ----------------------------------------------------
\* the process is terminated by a signal anywhere in main()
Cancel ==
    /\ pc \notin {"idle", "exited"}
    /\ Exit("Cancelled", 143)
    /\ UNCHANGED <<now, watermark_file, runs, locals, history, reader>>

\* the wall clock advances
Tick ==
    /\ now < MaxTime
    /\ now' = now + 1
    /\ UNCHANGED <<watermark_file, pc, runs, outcome, exit_code, locals, history, reader>>

\* another instance executes the watermark load (lines 542-548) while this
\* one is between its open() and the close of the file
ReaderLoad ==
    /\ pc \in {"nonew_write", "final_write"}
    /\ reader = None
    /\ reader' = Some(IF watermark_file.exists
                      THEN [found |-> TRUE, since_iso |-> strip(watermark_file.text)]
                      ELSE [found |-> FALSE, since_iso |-> isoformat(now - SINCE_HOURS)])
    /\ UNCHANGED <<now, watermark_file, pc, runs, outcome, exit_code, locals, history>>

Next ==
    \/ Main_Start
    \/ Main_MissingEnv
    \/ Main_LoadWatermark
    \/ Main_CaptureTimestamp
    \/ Main_ListConfigured
    \/ Main_DockerPs
    \/ Main_DockerPsFailed
    \/ Main_FetchLogs
    \/ Main_FetchLogsError
    \/ Main_FetchLogsRaises
    \/ Main_NoNewLogsOpen
    \/ Main_NoNewLogsWrite
    \/ Main_Summarized
    \/ Main_SummarizerFailed
    \/ Main_DryRun
    \/ Main_EmailSent
    \/ Main_DeliveryFailed
    \/ Main_FinalOpen
    \/ Main_FinalWrite
    \/ Cancel
    \/ Tick
    \/ ReaderLoad

Spec == Init /\ [][Next]_vars

\* ---- build_prompt on its own: lines 90-97 and the call at line 571 ------
\* the log texts, the orders of the dict and the settings it is applied to
BuildTexts == UNION {[1..n -> {"a", "b"}] : n \in 0..MaxLen}
BuildOrders == {<<"c1">>, <<"c1", "c2">>, <<"c2", "c1">>}
BuildCaps == 0..MaxCap

InitBuild ==
    /\ now = 0
    /\ watermark_file = NotFound
    /\ committed_fetch_start = None
    /\ pc = "build"
    /\ runs = 1
    /\ args_dry_run = FALSE
    /\ CONTAINERS = <<>>
    /\ max_log_chars \in BuildCaps
    /\ since_iso = isoformat(now - SINCE_HOURS)
    /\ since_str = [kind |-> "the last hours", value |-> isoformat(SINCE_HOURS)]
    /\ current_timestamp = isoformat(now)
    /\ docker_ps = "ok"
    /\ containers \in BuildOrders
    /\ log_data \in [{containers[i] : i \in 1..Len(containers)} -> BuildTexts]
    /\ prompt = None
    /\ summary = None
    /\ ai_error = None
    /\ email_sent = None
    /\ outcome = "Running"
    /\ exit_code = 0
    /\ wm_before = NotFound
    /\ fetch_failed = {}
    /\ fetch_started_at = Some(0)
    /\ summarizer_calls = 0
    /\ delivery_calls = 0
    /\ prev = [failed |-> FALSE, since_iso |-> <<>>, wm_exists |-> FALSE]
    /\ reader = None

Main_BuildPrompt ==
    /\ pc = "build"
    /\ prompt' = Some(build_prompt(containers, log_data, since_str))
    /\ Running("built")
    /\ UNCHANGED <<now, watermark_file, runs, args_dry_run, CONTAINERS, max_log_chars,
                   since_iso, since_str, current_timestamp, docker_ps, containers, log_data,
                   summary, ai_error, email_sent, history, reader>>

NextBuild == Main_BuildPrompt

SpecBuild == InitBuild /\ [][NextBuild]_vars

\* ======================= properties ======================================
WindowComputed == since_str.kind # "unset"
SourcesCollected == containers # <<>> /\ Collected(log_data)
EnumerationFailed == docker_ps \in {"CalledProcessError", "FileNotFoundError"}
Finished == pc = "exited" /\ outcome # "Cancelled"
TimeOf(text) == text[1].t

\* C1: a run in which the summarizer reported an error or the delivery
\* adapter reported failure is terminal with a non-zero exit status and
\* TIMESTAMP_FILE holds what it held when the run started; after a summarizer
\* error the delivery adapter has not been called.
C1_FailedRunKeepsWatermark ==
    /\ StageFailed => (pc = "exited" /\ exit_code # 0 /\ watermark_file = wm_before)
    /\ ai_error # None => delivery_calls = 0

C1_Witness ==
    /\ pc = "exited"
    /\ prev.failed /\ prev.wm_exists
    /\ email_sent = Some(FALSE)
    /\ wm_before.exists

\* C2: in a dry run the delivery adapter is never called, and when the run
\* has ended TIMESTAMP_FILE holds the value it had when the run started.
C2_DryRunNoSideEffects ==
    args_dry_run =>
        /\ delivery_calls = 0
        /\ Finished => watermark_file = wm_before

\* C3 as claimed: TIMESTAMP_FILE changes only when every source returned
\* empty text, or every source was fetched without error, the summarizer
\* succeeded and delivery was confirmed.
C3_AdvanceOnlyAfterCleanWindow ==
    watermark_file # wm_before =>
        /\ SourcesCollected
        /\ \/ AllLogsEmpty
           \/ /\ fetch_failed = {}
              /\ summarizer_calls = 1 /\ ai_error = None /\ summary # None
              /\ email_sent = Some(TRUE)

\* C3 amended: TIMESTAMP_FILE changes only when every source returned empty
\* text, or every fetch returned a text (the error marker for a fetch whose
\* log command exited non-zero), the summarizer succeeded and delivery was
\* confirmed; a failed enumeration, an uncaught fetch exception, a summarizer
\* error or a delivery failure leaves it unchanged.
C3_AdvanceOnlyAfterProcessedWindow ==
    /\ watermark_file # wm_before =>
         /\ SourcesCollected
         /\ \/ AllLogsEmpty
            \/ /\ summarizer_calls = 1 /\ ai_error = None /\ summary # None
               /\ email_sent = Some(TRUE)
    /\ (StageFailed \/ EnumerationFailed \/ outcome = "FetchCrashed") =>
         watermark_file = wm_before

C3_Witness ==
    /\ pc = "exited" /\ outcome = "Delivered"
    /\ fetch_failed # {}
    /\ watermark_file # wm_before

\* C4 as claimed: the run after a failed run computes the same window.since,
\* whether the watermark was present or absent.
C4_RetrySameWindow ==
    (WindowComputed /\ prev.failed) => since_iso = prev.since_iso

\* C4 amended: the run after a failed run computes the same window.since when
\* the watermark was present; when it was absent the window.since is computed
\* again from the lookback and is not earlier than the failed run's.
C4_RetrySameWindowWhenPresent ==
    (WindowComputed /\ prev.failed) =>
        IF prev.wm_exists
        THEN since_iso = prev.since_iso /\ since_str.kind = "the last run at"
        ELSE /\ since_str.kind = "the last hours"
             /\ TimeOf(since_iso) >= TimeOf(prev.since_iso)

C4_Witness ==
    /\ WindowComputed /\ prev.failed /\ prev.wm_exists
    /\ since_iso = isoformat(0)
    /\ now > 0

\* C5: once written, TIMESTAMP_FILE holds one parseable timestamp, not older
\* than the value the run found.
C5_WatermarkValidMonotonic ==
    watermark_file.exists =>
        /\ Len(watermark_file.text) = 1
        /\ (wm_before.exists /\ Len(wm_before.text) = 1) =>
             TimeOf(watermark_file.text) >= TimeOf(wm_before.text)

\* C6: a load of TIMESTAMP_FILE during a commit sees the complete previous
\* value or the complete new one, and after a cancellation the file holds the
\* previous value or the complete new one.
C6_CommitAllOrNothing ==
    /\ reader # None =>
         \/ reader[1] = [found |-> TRUE, since_iso |-> current_timestamp]
         \/ /\ wm_before.exists
            /\ reader[1] = [found |-> TRUE, since_iso |-> strip(wm_before.text)]
         \/ ~wm_before.exists /\ ~reader[1].found
    /\ outcome = "Cancelled" =>
         watermark_file \in {wm_before, FileWith(current_timestamp)}

C8_CommitIsRunStart ==
    /\ (pc = "exited" /\ outcome = "Delivered") =>
         /\ watermark_file = FileWith(current_timestamp)
         /\ TimeOf(current_timestamp) <= fetch_started_at[1]
    /\ (watermark_file.exists /\ Len(watermark_file.text) = 1) =>
         TimeOf(watermark_file.text) <= committed_fetch_start[1]
    /\ (since_str.kind = "the last run at" /\ Len(since_iso) = 1) =>
         TimeOf(since_iso) <= committed_fetch_start[1]

C8_Witness ==
    /\ pc = "exited" /\ outcome = "Delivered"
    /\ fetch_started_at[1] > TimeOf(current_timestamp)
    /\ now > fetch_started_at[1]

\* C9: a source whose fetch failed has a non-empty text in log_data, every
\* source is fetched, and the run goes on to the summarizer.
C9_FetchFailureIsolated ==
    fetch_failed # {} =>
        /\ \A n \in fetch_failed : n \in DOMAIN log_data /\ log_data[n] # <<>>
        /\ Finished => (SourcesCollected /\ summarizer_calls = 1)

\* C10: a run whose source enumeration failed is terminal with a non-zero
\* exit status, has fetched no source, has called neither the summarizer nor
\* the delivery adapter, and TIMESTAMP_FILE is as the run found it.
C10_EnumerationFailureAborts ==
    EnumerationFailed =>
        /\ pc = "exited" /\ exit_code # 0
        /\ log_data = EmptyDict /\ fetch_started_at = None
        /\ summarizer_calls = 0 /\ delivery_calls = 0
        /\ watermark_file = wm_before

C10_Witness ==
    /\ EnumerationFailed
    /\ pc = "exited"
    /\ wm_before.exists /\ runs = 2

\* the last k characters of s
Suffix(s, k) == SubSeq(s, Len(s) - k + 1, Len(s))
Min(a, b) == IF a < b THEN a ELSE b

\* C11: the prompt has one section per source, in the order of the mapping,
\* and the text of a section is exactly the last min(len(text), cap)
\* characters of the source's text, for every cap >= 0.
C11_TailTruncation ==
    pc = "built" =>
        LET sections == prompt[1].sections IN
        /\ Len(sections) = Len(containers)
        /\ \A i \in 1..Len(containers) :
             /\ sections[i].name = containers[i]
             /\ sections[i].logs =
                  Suffix(log_data[containers[i]],
                         Min(Len(log_data[containers[i]]), max_log_chars))

\* C12: after an enumeration that succeeded with an empty list the run is
\* terminal in NoContainers, TIMESTAMP_FILE is as the run found it (absent if
\* it was absent), and no source was fetched and neither the summarizer nor
\* the delivery adapter was called, with and without --dry-run.
C12_NoContainersNoCommit ==
    (docker_ps = "ok" /\ containers = <<>>) =>
        /\ pc = "exited" /\ outcome = "NoContainers"
        /\ watermark_file = wm_before
        /\ log_data = EmptyDict /\ fetch_started_at = None /\ fetch_failed = {}
        /\ summarizer_calls = 0 /\ delivery_calls = 0

C12_Witness ==
    /\ docker_ps = "ok" /\ containers = <<>>
    /\ pc = "exited"
    /\ args_dry_run
    /\ ~wm_before.exists /\ runs = 2 /\ now > 0

\* C13: the stages of a run happen in order.  A source is fetched only after
\* the window, the run-start timestamp and the source list exist and before
\* the summarizer; the summarizer is called once, after every source was
\* fetched; the delivery adapter is called at most once, with a summary the
\* summarizer returned without error in this run; and after a delivery call
\* TIMESTAMP_FILE changes only once delivery succeeded, in the open and the
\* write of one commit, the write leaving current_timestamp and ending the run.
C13_StagesInOrder ==
    [][/\ (pc = "fetch" /\ log_data' # log_data) =>
            /\ WindowComputed /\ current_timestamp # <<>> /\ containers # <<>>
            /\ summarizer_calls = 0 /\ delivery_calls = 0
       /\ summarizer_calls' > summarizer_calls =>
            /\ SourcesCollected
            /\ summarizer_calls = 0 /\ delivery_calls = 0
            /\ prompt' = Some(build_prompt(containers, log_data, since_str))
       /\ delivery_calls' > delivery_calls =>
            /\ delivery_calls = 0
            /\ summarizer_calls = 1 /\ ai_error = None /\ summary # None
            /\ watermark_file = wm_before
       /\ (delivery_calls = 1 /\ watermark_file' # watermark_file) =>
            /\ email_sent = Some(TRUE)
            /\ \/ pc = "final_open" /\ pc' = "final_write" /\ watermark_file = wm_before
               \/ /\ pc = "final_write" /\ pc' = "exited"
                  /\ watermark_file' = FileWith(current_timestamp)
      ]_vars

C13_Witness ==
    /\ pc = "exited" /\ outcome = "Delivered"
    /\ delivery_calls = 1 /\ summarizer_calls = 1
    /\ Len(containers) = 2
    /\ watermark_file = FileWith(current_timestamp)
    /\ runs = 2

====
